---- MODULE Spec2Model ----
(***************************************************************************)
(* Model of the fake-job scam detector: the start-up sequence of           *)
(* scam_detector.py / api.py (model path resolution, artifact load, app    *)
(* creation) and the scoring function predict_job with its helpers.        *)
(*                                                                         *)
(* Text is a sequence of one-character strings.  Probabilities and risk    *)
(* contributions are integers in units of 1/Scale (1e-5), so that the      *)
(* presentation rounding to 4 decimals is a real conversion.               *)
(***************************************************************************)
EXTENDS Integers, Sequences, FiniteSets, TLC

VARIABLES pc, env, fs, MODEL_PATH, model, app, SCAM_KEYWORDS,
          phase, request, result, served, tpc, targs, tres, memo

vars == <<pc, env, fs, MODEL_PATH, model, app, SCAM_KEYWORDS,
          phase, request, result, served, tpc, targs, tres, memo>>

(***************************************************************************)
(* Bounds of the model                                                     *)
(***************************************************************************)
\* supplied suspicion_score values range over -1 .. MaxSuspicion
MaxSuspicion == 4
\* number of concurrent request-handling threads
NumThreads == 2
\* number of requests counted by the start-up model
MaxServed == 2

(***************************************************************************)
(* Fixed-point scale and the weights of _composite_risk                    *)
(***************************************************************************)
Scale == 100000
WeakCompanyContrib == 8000
SuspicionWeight == 4000
SuspicionCap == 12000
KeywordWeight == 3000
KeywordCap == 10000
LabelThreshold == 50000
ShortProfileWords == 30

(***************************************************************************)
(* Python values                                                           *)
(***************************************************************************)
\* an optional, possibly malformed scalar argument:
\*   None, an int, a non-numeric str ("abc"), or float('inf')
None == [k |-> "None", v |-> 0]
IntVal(n) == [k |-> "int", v |-> n]
BadStr == [k |-> "badstr", v |-> 0]
Inf == [k |-> "inf", v |-> 0]

\* an optional text argument: None or a str (a sequence of characters)
NoText == [k |-> "None", s |-> <<>>]
Str(s) == [k |-> "str", s |-> s]

\* an optional company_strength argument: None or a str
NoStrength == [k |-> "None", s |-> ""]
Strength(s) == [k |-> "str", s |-> s]

Min(a, b) == IF a < b THEN a ELSE b
Max(a, b) == IF a > b THEN a ELSE b

\* int(value): the exception it raises, "" when it returns
IntRaises(value) ==
    CASE value.k = "int" -> ""
      [] value.k = "badstr" -> "ValueError"
      [] value.k = "inf" -> "OverflowError"
      [] OTHER -> "TypeError"

\* int(value) when it returns
IntOf(value) == value.v

\* round(x, 4) on a value in units of 1/Scale (round-half-even)
Round4(x) ==
    LET q == x \div 10
        r == x % 10
    IN  IF r < 5 THEN q * 10
        ELSE IF r > 5 THEN (q + 1) * 10
        ELSE IF q % 2 = 0 THEN q * 10 ELSE (q + 1) * 10

(***************************************************************************)
(* str operations                                                          *)
(***************************************************************************)
Upper == <<"A","B","C","D","E","F","G","H","I","J","K","L","M",
           "N","O","P","Q","R","S","T","U","V","W","X","Y","Z">>
LowerCase == <<"a","b","c","d","e","f","g","h","i","j","k","l","m",
               "n","o","p","q","r","s","t","u","v","w","x","y","z">>

\* str.lower() on one character
LowerChar(c) ==
    IF \E i \in 1..26 : Upper[i] = c
    THEN LowerCase[CHOOSE i \in 1..26 : Upper[i] = c]
    ELSE c

\* str.lower()
Lower(s) == [i \in 1..Len(s) |-> LowerChar(s[i])]

IsSpace(c) == c \in {" ", "\n", "\t"}

\* `sub in s` : literal substring test
Contains(s, sub) ==
    \E i \in 1..(Len(s) - Len(sub) + 1) :
        \A j \in 1..Len(sub) : s[i + j - 1] = sub[j]

\* len(s.split()) : number of maximal runs of non-whitespace
WordCount(s) ==
    Cardinality({i \in 1..Len(s) :
                    /\ ~IsSpace(s[i])
                    /\ (i = 1 \/ IsSpace(s[i - 1]))})

\* len(s.strip()) == 0
StripEmpty(s) == \A i \in 1..Len(s) : IsSpace(s[i])

\* " ".join(parts)
RECURSIVE Join(_)
Join(parts) ==
    IF Len(parts) = 0 THEN <<>>
    ELSE IF Len(parts) = 1 THEN parts[1]
    ELSE parts[1] \o <<" ">> \o Join(Tail(parts))

\* str(x or "") for an optional text argument
StrOrEmpty(t) == IF t.k = "None" THEN <<>> ELSE t.s

(***************************************************************************)
(* re.search(pattern, text) for patterns made of literal characters,       *)
(* "." (any character but newline) and "$" (end of text, or just before a  *)
(* newline that ends the text)                                             *)
(***************************************************************************)
RECURSIVE ReMatchAt(_, _, _, _)
ReMatchAt(pat, j, text, i) ==
    IF j > Len(pat) THEN TRUE
    ELSE IF pat[j] = "$"
         THEN /\ \/ i = Len(text) + 1
                 \/ (i = Len(text) /\ text[i] = "\n")
              /\ ReMatchAt(pat, j + 1, text, i)
    ELSE IF i > Len(text) THEN FALSE
    ELSE IF pat[j] = "."
         THEN text[i] # "\n" /\ ReMatchAt(pat, j + 1, text, i + 1)
    ELSE text[i] = pat[j] /\ ReMatchAt(pat, j + 1, text, i + 1)

ReSearch(pat, text) ==
    \E i \in 1..(Len(text) + 1) : ReMatchAt(pat, 1, text, i)

(***************************************************************************)
(* The keyword list                                                        *)
(***************************************************************************)
KeywordList ==
    << <<"w", "o", "r", "k", " ", "f", "r", "o", "m", " ", "h", "o", "m", "e">>,
       <<"n", "o", " ", "e", "x", "p", "e", "r", "i", "e", "n", "c", "e">>,
       <<"q", "u", "i", "c", "k", " ", "m", "o", "n", "e", "y">>,
       <<"e", "a", "r", "n", " ", "$">>,
       <<"g", "m", "a", "i", "l", ".", "c", "o", "m">>,
       <<"t", "e", "l", "e", "g", "r", "a", "m">>,
       <<"w", "h", "a", "t", "s", "a", "p", "p">>,
       <<"f", "a", "s", "t", " ", "c", "a", "s", "h">>,
       <<"l", "i", "m", "i", "t", "e", "d", " ", "s", "l", "o", "t", "s">>,
       <<"e", "a", "s", "y", " ", "i", "n", "c", "o", "m", "e">> >>

\* the terms of suspicious_contact
SuspiciousTerms ==
    { <<"g", "m", "a", "i", "l">>,
      <<"y", "a", "h", "o", "o">>,
      <<"t", "e", "l", "e", "g", "r", "a", "m">>,
      <<"w", "h", "a", "t", "s", "a", "p", "p">> }

HttpTerm == <<"h", "t", "t", "p">>

\* [x for x in list if keep(x)] as the indices kept, in list order
RECURSIVE FilterIdx(_, _, _)
FilterIdx(list, keep, i) ==
    IF i > Len(list) THEN <<>>
    ELSE (IF keep[i] THEN <<list[i]>> ELSE <<>>) \o FilterIdx(list, keep, i + 1)

\* found_keywords = [kw for kw in SCAM_KEYWORDS if re.search(kw, lowered)]
FoundKeywords(keywords, lowered) ==
    FilterIdx(keywords,
              [i \in 1..Len(keywords) |-> ReSearch(keywords[i], lowered)], 1)

(***************************************************************************)
(* Helpers of predict_job                                                  *)
(***************************************************************************)
\* _safe_int raises only what its except clause does not catch
safe_int_raises(value) ==
    IF value.k = "None" THEN ""
    ELSE IF IntRaises(value) \in {"TypeError", "ValueError"} THEN ""
    ELSE IntRaises(value)

safe_int(value, default) ==
    IF value.k = "None" THEN default
    ELSE IF IntRaises(value) = "" THEN IntOf(value)
    ELSE default

\* the classification with the medium band tested before the weak clause
compute_company_strength_BandFirst(followers, employees) ==
    IF 500 <= followers /\ followers <= 5000 THEN "medium"
    ELSE IF followers < 500 \/ employees < 20 THEN "weak"
    ELSE "strong"

compute_company_strength(followers, employees) ==
    IF followers < 500 \/ employees < 20 THEN "weak"
    ELSE IF 500 <= followers /\ followers <= 5000 THEN "medium"
    ELSE "strong"

suspicious_contact(text) ==
    LET lowered == Lower(text)
    IN  IF \E term \in SuspiciousTerms : Contains(lowered, term) THEN 1 ELSE 0

\* the flags with a suspicion_score that leaves out short_profile_flag
heuristic_flags_PartialSum(company_profile, description, requirements) ==
    LET text_profile == IF company_profile.k = "None" THEN <<>> ELSE company_profile.s
        text_desc == IF description.k = "None" THEN <<>> ELSE description.s
        text_req == IF requirements.k = "None" THEN <<>> ELSE requirements.s
        missing_website_flag ==
            IF Len(text_profile) = 0 \/ ~Contains(Lower(text_profile), HttpTerm)
            THEN 1 ELSE 0
        suspicious_email_flag ==
            IF suspicious_contact(text_desc) = 1 \/ suspicious_contact(text_req) = 1
            THEN 1 ELSE 0
        short_profile_flag ==
            IF StripEmpty(text_profile) \/ WordCount(text_profile) < ShortProfileWords
            THEN 1 ELSE 0
    IN  [missing_website_flag |-> missing_website_flag,
         suspicious_email_flag |-> suspicious_email_flag,
         short_profile_flag |-> short_profile_flag,
         suspicion_score |-> missing_website_flag + suspicious_email_flag]

heuristic_flags(company_profile, description, requirements) ==
    LET text_profile == IF company_profile.k = "None" THEN <<>> ELSE company_profile.s
        text_desc == IF description.k = "None" THEN <<>> ELSE description.s
        text_req == IF requirements.k = "None" THEN <<>> ELSE requirements.s
        missing_website_flag ==
            IF Len(text_profile) = 0 \/ ~Contains(Lower(text_profile), HttpTerm)
            THEN 1 ELSE 0
        suspicious_email_flag ==
            IF suspicious_contact(text_desc) = 1 \/ suspicious_contact(text_req) = 1
            THEN 1 ELSE 0
        short_profile_flag ==
            IF StripEmpty(text_profile) \/ WordCount(text_profile) < ShortProfileWords
            THEN 1 ELSE 0
    IN  [missing_website_flag |-> missing_website_flag,
         suspicious_email_flag |-> suspicious_email_flag,
         short_profile_flag |-> short_profile_flag,
         suspicion_score |->
             missing_website_flag + suspicious_email_flag + short_profile_flag]

\* the composition without the final clamp and without the caps
composite_risk_Unclamped(prob_scam, weak_company, suspicion_score, keyword_hits) ==
    LET base == prob_scam
        contrib_weak_company == IF weak_company THEN WeakCompanyContrib ELSE 0
        contrib_suspicion == SuspicionWeight * suspicion_score
        contrib_keywords == KeywordWeight * keyword_hits
        raw_score == base + contrib_weak_company + contrib_suspicion + contrib_keywords
    IN  [score |-> raw_score,
         breakdown |-> [model_probability |-> base,
                        weak_company |-> contrib_weak_company,
                        suspicion_score |-> contrib_suspicion,
                        keyword_hits |-> contrib_keywords,
                        clamped |-> FALSE]]

composite_risk(prob_scam, weak_company, suspicion_score, keyword_hits) ==
    LET base == prob_scam
        contrib_weak_company == IF weak_company THEN WeakCompanyContrib ELSE 0
        contrib_suspicion ==
            Min(SuspicionCap, SuspicionWeight * Max(0, suspicion_score))
        contrib_keywords ==
            Min(KeywordCap, KeywordWeight * Max(0, keyword_hits))
        raw_score == base + contrib_weak_company + contrib_suspicion + contrib_keywords
        score == Max(0, Min(Scale, raw_score))
    IN  [score |-> score,
         breakdown |-> [model_probability |-> base,
                        weak_company |-> contrib_weak_company,
                        suspicion_score |-> contrib_suspicion,
                        keyword_hits |-> contrib_keywords,
                        clamped |-> (score # raw_score)]]

(***************************************************************************)
(* The loaded classifier: an opaque artifact with predict_proba and,       *)
(* optionally, classes_.  Its probability for a text is read from a table  *)
(* indexed by the text length, so it is a fixed function of the text.      *)
(***************************************************************************)
NoModel == [loaded |-> FALSE, has_classes |-> FALSE, classes_ |-> <<>>,
            nout |-> 0, table |-> <<>>]

predict_proba(m, text) ==
    LET p == m.table[(Len(text) % Len(m.table)) + 1]
    IN  IF m.nout = 1 THEN <<Scale>> ELSE <<Scale - p, p>>

\* list(getattr(model, "classes_", [0, 1])).index(1), with the ValueError
\* fallback; the result is a 0-based index
ScamIndex(m, proba) ==
    LET classes == IF m.has_classes THEN m.classes_ ELSE <<0, 1>>
    IN  IF \E i \in 1..Len(classes) : classes[i] = 1
        THEN (CHOOSE i \in 1..Len(classes) :
                 /\ classes[i] = 1
                 /\ \A j \in 1..(i - 1) : classes[j] # 1) - 1
        ELSE IF Len(proba) > 1 THEN 1 ELSE 0

(***************************************************************************)
(* predict_job                                                             *)
(***************************************************************************)
\* `heur[...] if x is None else x` : one optional override, resolved alone
ResolveField_Falsy(supplied, heuristic) ==
    IF supplied.k = "None" \/ (supplied.k = "int" /\ supplied.v = 0)
    THEN IntVal(heuristic) ELSE supplied

ResolveField(supplied, heuristic) ==
    IF supplied.k = "None" THEN IntVal(heuristic) ELSE supplied

\* prediction_label = "scam" if prob_scam >= 0.5 else "legit"
\* (both the raw probability and the composite score are in scope there)
PredictionLabel_ByRisk(prob_scam, risk_score) ==
    IF risk_score >= LabelThreshold THEN "scam" ELSE "legit"

PredictionLabel(prob_scam, risk_score) ==
    IF prob_scam >= LabelThreshold THEN "scam" ELSE "legit"

\* the first exception among several evaluations, "" when none raises
RECURSIVE FirstRaise(_)
FirstRaise(excs) ==
    IF Len(excs) = 0 THEN ""
    ELSE IF excs[1] # "" THEN excs[1]
    ELSE FirstRaise(Tail(excs))

EmptySignals ==
    [keywords_triggered |-> <<>>, weak_company |-> FALSE, company_strength |-> "",
     followers |-> 0, employees |-> 0, engagement |-> 0,
     missing_website_flag |-> 0, suspicious_email_flag |-> 0,
     short_profile_flag |-> 0, suspicion_score |-> 0]

EmptyBreakdown ==
    [model_probability |-> 0, weak_company |-> 0, suspicion_score |-> 0,
     keyword_hits |-> 0, clamped |-> FALSE]

\* the call ends by raising exc instead of returning
Raised(exc, idx, n) ==
    [status |-> "raise", exc |-> exc, prediction |-> "",
     probabilities |-> [scam |-> 0, legit |-> 0], risk_score |-> 0,
     signals |-> EmptySignals, risk_breakdown |-> EmptyBreakdown,
     model_artifact |-> [path |-> ""],
     locals |-> [idx_scam |-> idx, nproba |-> n, prob_scam |-> 0]]

\* the state before any call has returned
NoResult ==
    [status |-> "none", exc |-> "", prediction |-> "",
     probabilities |-> [scam |-> 0, legit |-> 0], risk_score |-> 0,
     signals |-> EmptySignals, risk_breakdown |-> EmptyBreakdown,
     model_artifact |-> [path |-> ""],
     locals |-> [idx_scam |-> 0, nproba |-> 0, prob_scam |-> 0]]

predict_job(m, path, keywords, r) ==
    LET text == Join(<<StrOrEmpty(r.title), StrOrEmpty(r.description),
                       StrOrEmpty(r.requirements), StrOrEmpty(r.company_profile)>>)
        proba == predict_proba(m, text)
        idx_scam == ScamIndex(m, proba)
    IN  IF idx_scam >= Len(proba) THEN Raised("IndexError", idx_scam, Len(proba))
        ELSE
    LET prob_scam == proba[idx_scam + 1]
        lowered == Lower(text)
        found_keywords == FoundKeywords(keywords, lowered)
        coercion == FirstRaise(<<safe_int_raises(r.followers),
                                 safe_int_raises(r.employees),
                                 safe_int_raises(r.engagement)>>)
    IN  IF coercion # "" THEN Raised(coercion, idx_scam, Len(proba))
        ELSE
    LET followers_i == safe_int(r.followers, 0)
        employees_i == safe_int(r.employees, 0)
        engagement_i == safe_int(r.engagement, 0)
        company_strength ==
            IF r.company_strength.k = "None" \/ r.company_strength.s = ""
            THEN compute_company_strength(followers_i, employees_i)
            ELSE r.company_strength.s
        weak_company ==
            (followers_i < 500) \/ (employees_i < 10) \/ (engagement_i < 5)
        anyNone == \/ r.missing_website_flag.k = "None"
                   \/ r.suspicious_email_flag.k = "None"
                   \/ r.short_profile_flag.k = "None"
                   \/ r.suspicion_score.k = "None"
        heur == heuristic_flags(r.company_profile, r.description, r.requirements)
        missing_website_flag ==
            IF anyNone THEN ResolveField(r.missing_website_flag, heur.missing_website_flag)
            ELSE r.missing_website_flag
        suspicious_email_flag ==
            IF anyNone THEN ResolveField(r.suspicious_email_flag, heur.suspicious_email_flag)
            ELSE r.suspicious_email_flag
        short_profile_flag ==
            IF anyNone THEN ResolveField(r.short_profile_flag, heur.short_profile_flag)
            ELSE r.short_profile_flag
        suspicion_score ==
            IF anyNone THEN ResolveField(r.suspicion_score, heur.suspicion_score)
            ELSE r.suspicion_score
        conversion == FirstRaise(<<IntRaises(suspicion_score),
                                   IntRaises(missing_website_flag),
                                   IntRaises(suspicious_email_flag),
                                   IntRaises(short_profile_flag)>>)
    IN  IF conversion # "" THEN Raised(conversion, idx_scam, Len(proba))
        ELSE
    LET risk == composite_risk(prob_scam, weak_company, IntOf(suspicion_score),
                               Len(found_keywords))
        risk_score == risk.score
    IN  [status |-> "ok", exc |-> "",
         prediction |-> PredictionLabel(prob_scam, risk_score),
         probabilities |-> [scam |-> Round4(prob_scam),
                            legit |-> Round4(Scale - prob_scam)],
         risk_score |-> Round4(risk_score),
         signals |-> [keywords_triggered |-> found_keywords,
                      weak_company |-> weak_company,
                      company_strength |-> company_strength,
                      followers |-> followers_i,
                      employees |-> employees_i,
                      engagement |-> engagement_i,
                      missing_website_flag |-> IntOf(missing_website_flag),
                      suspicious_email_flag |-> IntOf(suspicious_email_flag),
                      short_profile_flag |-> IntOf(short_profile_flag),
                      suspicion_score |-> IntOf(suspicion_score)],
         risk_breakdown |-> risk.breakdown,
         model_artifact |-> [path |-> path],
         locals |-> [idx_scam |-> idx_scam, nproba |-> Len(proba),
                     prob_scam |-> prob_scam]]

(***************************************************************************)
(* Inputs: job postings, enrichment values and models                      *)
(***************************************************************************)
\* n one-letter words separated by single spaces
RECURSIVE Words(_)
Words(n) == IF n = 0 THEN <<>>
            ELSE IF n = 1 THEN <<"w">>
            ELSE <<"w", " ">> \o Words(n - 1)

\* a profile of n words whose first word is a link
LinkWords(n) == <<"H", "t", "t", "p", ":", "/", "/", "a">> \o
                (IF n > 1 THEN <<" ">> \o Words(n - 1) ELSE <<>>)

Titles == {NoText, Str(<<"F", "a", "s", "t", " ", "c", "a", "s", "h">>)}

Descriptions ==
    {NoText,
     Str(<<"E", "a", "r", "n", " ", "$", "5">>),
     Str(<<"w", "h", "a", "t", "s", "a", "p", "p", " ",
           "G", "m", "a", "i", "l", ".", "c", "o", "m">>),
     Str(<<"g", "m", "a", "i", "l", "x", "c", "o", "m">>)}

Requirements ==
    {NoText,
     Str(<<"e", "a", "r", "n">>),
     Str(<<"Y", "a", "h", "o", "o", " ", "m", "a", "i", "l">>)}

Profiles ==
    {NoText, Str(<<>>), Str(<<"\n">>),
     Str(LinkWords(1)),
     Str(LinkWords(ShortProfileWords - 1)),
     Str(LinkWords(ShortProfileWords)),
     Str(Words(ShortProfileWords))}

Postings ==
    [title : Titles, description : Descriptions,
     requirements : Requirements, company_profile : Profiles]

\* postings used where the text is not the dimension explored
FewPostings ==
    {p \in Postings :
        /\ p.title = NoText
        /\ p.requirements = NoText
        /\ p.description.k = "str" => Len(p.description.s) > 9
        /\ p.company_profile \in {NoText, Str(LinkWords(ShortProfileWords))}
        /\ (p.description = NoText) = (p.company_profile = NoText)}

Followers == {None, IntVal(499), IntVal(500), IntVal(5000), IntVal(5001), BadStr, Inf}
Employees == {None, IntVal(9), IntVal(10), IntVal(19), IntVal(20), BadStr}
Engagements == {None, IntVal(4), IntVal(5), BadStr}
Strengths == {NoStrength, Strength(""), Strength("weak")}

Companies ==
    [followers : Followers, employees : Employees,
     engagement : Engagements, company_strength : Strengths]

FewCompanies ==
    {[followers |-> None, employees |-> None, engagement |-> None,
      company_strength |-> NoStrength],
     [followers |-> IntVal(5001), employees |-> IntVal(20),
      engagement |-> IntVal(5), company_strength |-> NoStrength]}

FlagValues == {None, IntVal(0), IntVal(1), BadStr}
ScoreValues == {None, BadStr, Inf} \cup {IntVal(n) : n \in -1..MaxSuspicion}

Overrides ==
    [missing_website_flag : FlagValues, suspicious_email_flag : FlagValues,
     short_profile_flag : FlagValues, suspicion_score : ScoreValues]

FewOverrides ==
    {[missing_website_flag |-> None, suspicious_email_flag |-> None,
      short_profile_flag |-> None, suspicion_score |-> None],
     [missing_website_flag |-> None, suspicious_email_flag |-> None,
      short_profile_flag |-> None, suspicion_score |-> IntVal(0)]}

\* the keyword arguments of one call
Args(p, c, o) ==
    [title |-> p.title, description |-> p.description,
     requirements |-> p.requirements, company_profile |-> p.company_profile,
     followers |-> c.followers, employees |-> c.employees,
     engagement |-> c.engagement, company_strength |-> c.company_strength,
     missing_website_flag |-> o.missing_website_flag,
     suspicious_email_flag |-> o.suspicious_email_flag,
     short_profile_flag |-> o.short_profile_flag,
     suspicion_score |-> o.suspicion_score]

\* every posting, every company and every override is explored, each
\* against a few values of the other two
Requests ==
    {Args(p, c, o) : p \in Postings, c \in FewCompanies, o \in FewOverrides}
    \cup {Args(p, c, o) : p \in FewPostings, c \in Companies, o \in FewOverrides}
    \cup {Args(p, c, o) : p \in FewPostings, c \in FewCompanies, o \in Overrides}

NoRequest ==
    Args([title |-> NoText, description |-> NoText, requirements |-> NoText,
          company_profile |-> NoText],
         [followers |-> None, employees |-> None, engagement |-> None,
          company_strength |-> NoStrength],
         [missing_website_flag |-> None, suspicious_email_flag |-> None,
          short_profile_flag |-> None, suspicion_score |-> None])

ClassOrders ==
    {[has_classes |-> TRUE, classes_ |-> <<0, 1>>, nout |-> 2],
     [has_classes |-> TRUE, classes_ |-> <<1, 0>>, nout |-> 2],
     [has_classes |-> TRUE, classes_ |-> <<0, 2>>, nout |-> 2],
     [has_classes |-> TRUE, classes_ |-> <<0>>, nout |-> 1],
     [has_classes |-> TRUE, classes_ |-> <<1>>, nout |-> 1],
     [has_classes |-> FALSE, classes_ |-> <<>>, nout |-> 2],
     [has_classes |-> FALSE, classes_ |-> <<>>, nout |-> 1]}

ProbTables == {<<49999, 95000, 0>>, <<42000, 50000, 100000>>}

Models ==
    {[loaded |-> TRUE, has_classes |-> c.has_classes, classes_ |-> c.classes_,
      nout |-> c.nout, table |-> t] : c \in ClassOrders, t \in ProbTables}

(***************************************************************************)
(* Files and the model path                                                *)
(***************************************************************************)
\* the places an artifact can be: the path named by SCAM_MODEL_PATH, the
\* default models/scam_detector.pkl and the legacy in-package file
Locations == {"custom", "default", "legacy"}

Missing == [exists |-> FALSE, artifact |-> NoModel]
\* a file joblib.load cannot load
Corrupt == [exists |-> TRUE, artifact |-> NoModel]
File(m) == [exists |-> TRUE, artifact |-> m]

\* the three-tier resolution: override, then default, then legacy
ResolvePath_ThreeTier(environ, files) ==
    IF environ # "unset" /\ files[environ].exists THEN environ
    ELSE IF files["default"].exists THEN "default"
    ELSE "legacy"

\* _MODEL_PATH = Path(os.getenv("SCAM_MODEL_PATH", str(_DEFAULT_MODEL)));
\* if it does not exist and the legacy file does, the legacy file
ResolvePath(environ, files) ==
    LET first == IF environ = "unset" THEN "default" ELSE environ
    IN  IF ~files[first].exists
        THEN (IF files["legacy"].exists THEN "legacy" ELSE first)
        ELSE first

(***************************************************************************)
(* predict_job as a function of its arguments and the loaded model: the    *)
(* start-up has succeeded, a call with arguments `request` is entered and  *)
(* the action runs it to its return or its exception                       *)
(***************************************************************************)
Init ==
    /\ pc = "serving"
    /\ env = "unset"
    /\ model \in Models
    /\ fs = [l \in Locations |-> IF l = "default" THEN File(model) ELSE Missing]
    /\ MODEL_PATH = "default"
    /\ app = TRUE
    /\ SCAM_KEYWORDS = KeywordList
    /\ phase = "called"
    /\ request \in Requests
    /\ result = NoResult
    /\ served = 0
    /\ tpc = [t \in 1..NumThreads |-> "idle"]
    /\ targs = [t \in 1..NumThreads |-> NoRequest]
    /\ tres = [t \in 1..NumThreads |-> NoResult]
    /\ memo = {}

\* the body of predict_job(**request)
Call ==
    /\ pc = "serving"
    /\ phase = "called"
    /\ result' = predict_job(model, MODEL_PATH, SCAM_KEYWORDS, request)
    /\ phase' = "returned"
    /\ UNCHANGED <<pc, env, fs, MODEL_PATH, model, app, SCAM_KEYWORDS,
                   request, served, tpc, targs, tres, memo>>

Next == Call

Spec == Init /\ [][Next]_vars

(***************************************************************************)
(* Properties of predict_job                                               *)
(***************************************************************************)
Returned == phase = "returned" /\ result.status = "ok"

FlagFields == {"missing_website_flag", "suspicious_email_flag", "short_profile_flag"}
OverrideFields == FlagFields \cup {"suspicion_score"}

\* the text predict_job builds from the request
RequestText ==
    Join(<<StrOrEmpty(request.title), StrOrEmpty(request.description),
           StrOrEmpty(request.requirements), StrOrEmpty(request.company_profile)>>)

RequestHeuristics ==
    heuristic_flags(request.company_profile, request.description,
                    request.requirements)

FlagSum(sig) ==
    sig.missing_website_flag + sig.suspicious_email_flag + sig.short_profile_flag

\* C1: every returned risk_score lies in [0,1], whatever the enrichment
\* values, the overrides, the keyword hits and the model probability.
C1_RiskScoreBounded ==
    Returned => (0 <= result.risk_score /\ result.risk_score <= Scale)

\* a call whose raw sum exceeded 1 and was clamped
C1_Witness ==
    /\ Returned
    /\ result.risk_breakdown.clamped
    /\ result.risk_score = Scale
    /\ request.suspicion_score = IntVal(MaxSuspicion)

\* C2: with a usable model the call never raises: an uncoercible followers,
\* employees or engagement is reported as 0 and a malformed flag or
\* suspicion_score does not make the call fail.
C2_NeverRaises ==
    (phase = "returned" /\ result.exc # "IndexError") =>
        /\ result.status = "ok"
        /\ request.followers.k # "int" => result.signals.followers = 0
        /\ request.employees.k # "int" => result.signals.employees = 0
        /\ request.engagement.k # "int" => result.signals.engagement = 0

\* C3 as stated: when none of the three flags is supplied, the reported
\* suspicion_score is the sum of the three reported flags.
C3_SumWhenFlagsAbsent ==
    (Returned /\ \A f \in FlagFields : request[f] = None) =>
        result.signals.suspicion_score = FlagSum(result.signals)

\* C3 amended: when none of the three flags and no suspicion_score is
\* supplied, the reported suspicion_score is the sum of the three reported
\* flags.
C3_SumWhenAllDerived ==
    (Returned /\ \A f \in OverrideFields : request[f] = None) =>
        result.signals.suspicion_score = FlagSum(result.signals)

\* a fully derived call whose flags are not all equal
C3_Witness ==
    /\ Returned
    /\ \A f \in OverrideFields : request[f] = None
    /\ result.signals.suspicion_score = 2
    /\ result.signals.short_profile_flag = 1
    /\ result.signals.missing_website_flag = 0

\* C4: each of the three flags and suspicion_score is resolved on its own:
\* a supplied value is reported as it is and the risk composition uses the
\* supplied suspicion_score; an absent field gets its heuristic value.
C4_PerFieldResolution ==
    Returned =>
        /\ \A f \in OverrideFields :
              /\ request[f].k = "int" => result.signals[f] = request[f].v
              /\ request[f] = None => result.signals[f] = RequestHeuristics[f]
        /\ request.suspicion_score.k = "int" =>
              result.risk_breakdown.suspicion_score =
                  Min(SuspicionCap,
                      SuspicionWeight * Max(0, request.suspicion_score.v))

\* suspicion_score 0 and a flag 0 are supplied where the text yields 2 and 1,
\* while another flag is left to the heuristic
C4_Witness ==
    /\ Returned
    /\ request.suspicion_score = IntVal(0)
    /\ RequestHeuristics.suspicion_score >= 2
    /\ result.signals.suspicion_score = 0
    /\ result.risk_breakdown.suspicion_score = 0
    /\ request.missing_website_flag = IntVal(0)
    /\ RequestHeuristics.missing_website_flag = 1
    /\ result.signals.missing_website_flag = 0
    /\ request.short_profile_flag = None
    /\ result.signals.short_profile_flag = 1

\* C5: the label is "scam" exactly when the raw model probability is at
\* least 0.5 and "legit" otherwise; it does not follow the composite score.
C5_LabelFromModelProbability ==
    Returned =>
        /\ result.prediction \in {"scam", "legit"}
        /\ (result.prediction = "scam") <=>
               (predict_proba(model, RequestText)[result.locals.idx_scam + 1]
                    >= LabelThreshold)

\* a posting labelled legit whose composite score is above 0.5
C5_Witness ==
    /\ Returned
    /\ result.prediction = "legit"
    /\ result.risk_score > LabelThreshold
    /\ result.signals.weak_company
    /\ Len(result.signals.keywords_triggered) > 0

\* C6: keywords_triggered is the list-order sub-sequence of the entries that
\* occur as literal substrings of the lower-cased joined text.
C6_LiteralKeywords ==
    Returned =>
        result.signals.keywords_triggered =
            FilterIdx(KeywordList,
                      [i \in 1..Len(KeywordList) |->
                          Contains(Lower(RequestText), KeywordList[i])], 1)

\* the index the claim C7 describes (0-based)
ClaimedScamIndex(m, n) ==
    IF m.has_classes /\ \E i \in 1..Len(m.classes_) : m.classes_[i] = 1
    THEN (CHOOSE i \in 1..Len(m.classes_) : m.classes_[i] = 1) - 1
    ELSE IF n >= 2 THEN 1 ELSE 0

\* C7: the scam index is the position of label 1 in classes_ when there is
\* one; else 1 if the vector has two entries and 0 if it has one; so it is
\* always within the probability vector.
C7_ScamIndexWithinVector ==
    phase = "returned" =>
        /\ result.locals.idx_scam = ClaimedScamIndex(model, result.locals.nproba)
        /\ result.locals.idx_scam < result.locals.nproba

(***************************************************************************)
(* Start-up: importing scam_detector resolves the path and loads the       *)
(* artifact; importing api then creates the app; only then are requests    *)
(* handled                                                                 *)
(***************************************************************************)
ModelA == [loaded |-> TRUE, has_classes |-> TRUE, classes_ |-> <<0, 1>>,
           nout |-> 2, table |-> <<49999, 95000, 0>>]
ModelB == [loaded |-> TRUE, has_classes |-> TRUE, classes_ |-> <<1, 0>>,
           nout |-> 2, table |-> <<42000, 50000, 100000>>]

FileContents == {Missing, Corrupt, File(ModelA), File(ModelB)}

\* two postings, the second with a suspicious description
StartupPostings ==
    {NoRequest,
     [NoRequest EXCEPT !.description =
          Str(<<"E", "a", "r", "n", " ", "$", "5">>),
                       !.followers = IntVal(499)]}

\* the JSON bodies posted to /analyze_job: well-formed ones, and ones with an
\* out-of-range or non-numeric flag, suspicion_score or count, or a
\* company_strength that is empty or differently cased
StartupRequests ==
    {[r EXCEPT !.missing_website_flag = a, !.suspicious_email_flag = b,
               !.suspicion_score = c] :
        r \in {NoRequest},
        a \in {None, IntVal(0), IntVal(2)},
        b \in {None, IntVal(1), BadStr},
        c \in {None, IntVal(-1), IntVal(3), IntVal(MaxSuspicion), BadStr}}
    \cup StartupPostings
    \cup {[NoRequest EXCEPT !.followers = BadStr],
          [NoRequest EXCEPT !.engagement = Inf],
          [NoRequest EXCEPT !.company_strength = Strength("")],
          [NoRequest EXCEPT !.company_strength = Strength("Weak")]}

InitStartup ==
    /\ pc = "boot"
    /\ env \in {"unset", "custom"}
    /\ fs \in [Locations -> FileContents]
    /\ MODEL_PATH = ""
    /\ model = NoModel
    /\ app = FALSE
    /\ SCAM_KEYWORDS = KeywordList
    /\ phase = "idle"
    /\ request = NoRequest
    /\ result = NoResult
    /\ served = 0
    /\ tpc = [t \in 1..NumThreads |-> "idle"]
    /\ targs = [t \in 1..NumThreads |-> NoRequest]
    /\ tres = [t \in 1..NumThreads |-> NoResult]
    /\ memo = {}

\* scam_detector.py lines 27-36
ResolveModelPath ==
    /\ pc = "boot"
    /\ MODEL_PATH' = ResolvePath(env, fs)
    /\ pc' = "resolved"
    /\ UNCHANGED <<env, fs, model, app, SCAM_KEYWORDS, phase, request, result,
                   served, tpc, targs, tres, memo>>

\* a load whose failure is swallowed, leaving the import to go on
LoadModel_Lenient ==
    /\ pc = "resolved"
    /\ model' = fs[MODEL_PATH].artifact
    /\ pc' = "loaded"
    /\ UNCHANGED <<env, fs, MODEL_PATH, app, SCAM_KEYWORDS, phase, request,
                   result, served, tpc, targs, tres, memo>>

\* model = joblib.load(str(_MODEL_PATH)): a missing or unloadable file raises
\* and the import of scam_detector, hence of api, fails
LoadModel ==
    /\ pc = "resolved"
    /\ IF fs[MODEL_PATH].exists /\ fs[MODEL_PATH].artifact.loaded
       THEN model' = fs[MODEL_PATH].artifact /\ pc' = "loaded"
       ELSE model' = model /\ pc' = "crashed"
    /\ UNCHANGED <<env, fs, MODEL_PATH, app, SCAM_KEYWORDS, phase, request,
                   result, served, tpc, targs, tres, memo>>

\* api.py: after `from .scam_detector import predict_job`, app = FastAPI(...)
CreateApp ==
    /\ pc = "loaded"
    /\ app' = TRUE
    /\ pc' = "serving"
    /\ UNCHANGED <<env, fs, MODEL_PATH, model, SCAM_KEYWORDS, phase, request,
                   result, served, tpc, targs, tres, memo>>

\* an Optional[int] field of AnalyzeJobRequest accepts None and integers
ValidOptionalInt(value) == value.k \in {"None", "int"}

\* validate_binary_flags (mode="before"): None, or a value int() turns into
\* 0 or 1
validate_binary_flags(value) ==
    \/ value.k = "None"
    \/ (IntRaises(value) = "" /\ IntOf(value) \in {0, 1})

\* str(v).lower() on the company_strength values posted
StrengthLower(str) == IF str = "Weak" THEN "weak" ELSE str

\* validate_company_strength: None, or a value that lower-cases to an
\* allowed one
validate_company_strength(value) ==
    \/ value.k = "None"
    \/ StrengthLower(value.s) \in {"weak", "medium", "strong"}

\* the body passes the validation of AnalyzeJobRequest
Accepted(r) ==
    /\ ValidOptionalInt(r.followers)
    /\ ValidOptionalInt(r.employees)
    /\ ValidOptionalInt(r.engagement)
    /\ validate_company_strength(r.company_strength)
    /\ validate_binary_flags(r.missing_website_flag)
    /\ validate_binary_flags(r.suspicious_email_flag)
    /\ validate_binary_flags(r.short_profile_flag)
    /\ ValidOptionalInt(r.suspicion_score)

\* the payload the handler receives: the validators' return values
Payload(r) ==
    [r EXCEPT !.company_strength =
        IF r.company_strength.k = "None" THEN NoStrength
        ELSE Strength(StrengthLower(r.company_strength.s))]

\* the 422 response to a body that fails validation
Rejected == [NoResult EXCEPT !.status = "rejected", !.exc = "HTTP 422"]

\* the 500 response to an exception in the handler
InternalError == [NoResult EXCEPT !.status = "error", !.exc = "HTTP 500"]

\* AnalyzeJobResponse(**result) keeps prediction, probabilities, risk_score
\* and signals
Response(res) ==
    [res EXCEPT !.risk_breakdown = EmptyBreakdown,
                !.model_artifact = [path |-> ""]]

\* POST /analyze_job
analyze_job(r) ==
    /\ pc = "serving"
    /\ app
    /\ served < MaxServed
    /\ request' = r
    /\ result' =
          IF ~Accepted(r) THEN Rejected
          ELSE LET res == predict_job(model, MODEL_PATH, SCAM_KEYWORDS, Payload(r))
               IN  IF res.status = "raise" THEN InternalError ELSE Response(res)
    /\ phase' = "returned"
    /\ served' = served + 1
    /\ UNCHANGED <<pc, env, fs, MODEL_PATH, model, app, SCAM_KEYWORDS,
                   tpc, targs, tres, memo>>

\* GET /health
health ==
    /\ pc = "serving"
    /\ app
    /\ served < MaxServed
    /\ served' = served + 1
    /\ UNCHANGED <<pc, env, fs, MODEL_PATH, model, app, SCAM_KEYWORDS,
                   phase, request, result, tpc, targs, tres, memo>>

NextStartup ==
    \/ ResolveModelPath
    \/ LoadModel
    \/ CreateApp
    \/ \E r \in StartupRequests : analyze_job(r)
    \/ health

SpecStartup == InitStartup /\ [][NextStartup]_vars

Resolved == pc \in {"resolved", "loaded", "serving", "crashed"}

\* the location C8 describes
ClaimedPath ==
    IF env # "unset" /\ fs[env].exists THEN env
    ELSE IF fs["default"].exists THEN "default"
    ELSE "legacy"

\* C8 as stated: the path is the override if set and existing, else the
\* default location if it exists, else the legacy location (stated where
\* that location holds a file, so that there is something to load).
C8_ThreeTierResolution ==
    (Resolved /\ fs[ClaimedPath].exists) => MODEL_PATH = ClaimedPath

\* C8 amended: the candidate is the override when set, else the default
\* location; the candidate is used if it exists; if it does not exist the
\* legacy location is used when that exists, and otherwise the candidate is
\* kept (and the load fails).  A set override that does not exist never
\* leads to the default location.
C8_CandidateThenLegacy ==
    Resolved =>
        /\ (env # "unset" /\ fs[env].exists) => MODEL_PATH = env
        /\ (env = "unset" /\ fs["default"].exists) => MODEL_PATH = "default"
        /\ (env # "unset" /\ ~fs[env].exists) =>
              MODEL_PATH = (IF fs["legacy"].exists THEN "legacy" ELSE env)
        /\ (env = "unset" /\ ~fs["default"].exists) =>
              MODEL_PATH = (IF fs["legacy"].exists THEN "legacy" ELSE "default")
        /\ (pc = "serving" => model = fs[MODEL_PATH].artifact)

\* the override names a missing file, the default and the legacy files both
\* exist, and the legacy one has been loaded
C8_Witness ==
    /\ pc = "serving"
    /\ env = "custom"
    /\ ~fs["custom"].exists
    /\ fs["default"] = File(ModelA)
    /\ fs["legacy"] = File(ModelB)
    /\ MODEL_PATH = "legacy"
    /\ model = ModelB

\* C9: the load completes before any request is handled; after a failed
\* load the app is never created and no request is ever served; requests
\* are served only with a loaded model.
C9_FailFast ==
    /\ (app \/ served > 0) => (pc = "serving" /\ model.loaded)
    /\ pc = "crashed" => (~app /\ served = 0 /\ ~model.loaded)
    /\ (pc \in {"resolved", "loaded", "serving"} /\
            ~(fs[MODEL_PATH].exists /\ fs[MODEL_PATH].artifact.loaded)) =>
          (pc = "resolved" /\ ~app /\ served = 0)

\* the load of an existing but unloadable artifact has failed
C9_Witness ==
    /\ pc = "crashed"
    /\ fs[MODEL_PATH] = Corrupt
    /\ fs["legacy"] = File(ModelA)
    /\ ~app
    /\ served = 0

(***************************************************************************)
(* Concurrent calls: each request-handling thread enters predict_job with  *)
(* its arguments and later returns; memo collects every (arguments,        *)
(* result) pair a call has returned                                        *)
(***************************************************************************)
Threads == 1..NumThreads

CallRequests ==
    {NoRequest,
     [NoRequest EXCEPT !.title = Str(<<"F", "a", "s", "t", " ", "c", "a", "s", "h">>)],
     [NoRequest EXCEPT !.description =
          Str(<<"w", "h", "a", "t", "s", "a", "p", "p", " ",
                "G", "m", "a", "i", "l", ".", "c", "o", "m">>),
                       !.suspicion_score = IntVal(0)],
     [NoRequest EXCEPT !.suspicion_score = BadStr]}

InitCalls ==
    /\ pc = "serving"
    /\ env = "unset"
    /\ model \in {ModelA, ModelB}
    /\ fs = [l \in Locations |-> IF l = "default" THEN File(model) ELSE Missing]
    /\ MODEL_PATH = "default"
    /\ app = TRUE
    /\ SCAM_KEYWORDS = KeywordList
    /\ phase = "idle"
    /\ request = NoRequest
    /\ result = NoResult
    /\ served = 0
    /\ tpc = [t \in Threads |-> "idle"]
    /\ targs = [t \in Threads |-> NoRequest]
    /\ tres = [t \in Threads |-> NoResult]
    /\ memo = {}

\* thread t enters predict_job(**r)
Enter(t, r) ==
    /\ pc = "serving"
    /\ tpc[t] = "idle"
    /\ tpc' = [tpc EXCEPT ![t] = "running"]
    /\ targs' = [targs EXCEPT ![t] = r]
    /\ tres' = [tres EXCEPT ![t] = NoResult]
    /\ UNCHANGED <<pc, env, fs, MODEL_PATH, model, app, SCAM_KEYWORDS,
                   phase, request, result, served, memo>>

\* a predict_job that drops the keywords it has reported from the shared list
Return_Consuming(t) ==
    /\ pc = "serving"
    /\ tpc[t] = "running"
    /\ LET res == predict_job(model, MODEL_PATH, SCAM_KEYWORDS, targs[t])
       IN  /\ tres' = [tres EXCEPT ![t] = res]
           /\ memo' = memo \cup {<<targs[t], res>>}
           /\ SCAM_KEYWORDS' =
                  FilterIdx(SCAM_KEYWORDS,
                            [i \in 1..Len(SCAM_KEYWORDS) |->
                                \A j \in 1..Len(res.signals.keywords_triggered) :
                                   res.signals.keywords_triggered[j] # SCAM_KEYWORDS[i]],
                            1)
    /\ tpc' = [tpc EXCEPT ![t] = "idle"]
    /\ UNCHANGED <<pc, env, fs, MODEL_PATH, model, app,
                   phase, request, result, served, targs>>

\* thread t runs the body of predict_job: it reads model, SCAM_KEYWORDS and
\* _MODEL_PATH and assigns only its own locals
Return(t) ==
    /\ pc = "serving"
    /\ tpc[t] = "running"
    /\ LET res == predict_job(model, MODEL_PATH, SCAM_KEYWORDS, targs[t])
       IN  /\ tres' = [tres EXCEPT ![t] = res]
           /\ memo' = memo \cup {<<targs[t], res>>}
    /\ tpc' = [tpc EXCEPT ![t] = "idle"]
    /\ UNCHANGED <<pc, env, fs, MODEL_PATH, model, app, SCAM_KEYWORDS,
                   phase, request, result, served, targs>>

NextCalls ==
    \/ \E t \in Threads, r \in CallRequests : Enter(t, r)
    \/ \E t \in Threads : Return(t)

SpecCalls == InitCalls /\ [][NextCalls]_vars

\* C10: predict_job leaves the model, the keyword list and the model path
\* unchanged, and any two calls with identical arguments return identical
\* results, whatever calls run between or interleave with them.
C10_PureFunction ==
    /\ [](\A p \in memo, q \in memo : p[1] = q[1] => p[2] = q[2])
    /\ [][/\ model' = model
          /\ SCAM_KEYWORDS' = SCAM_KEYWORDS
          /\ MODEL_PATH' = MODEL_PATH]_vars

\* two threads have returned from calls with the same arguments, with
\* other calls having returned before
C10_Witness ==
    /\ \A t \in Threads : tpc[t] = "idle" /\ tres[t].status = "ok"
    /\ targs[1] = targs[2]
    /\ tres[1] = tres[2]
    /\ Len(tres[1].signals.keywords_triggered) > 0
    /\ Cardinality(memo) = Cardinality(CallRequests)

(***************************************************************************)
(* Company signals                                                         *)
(***************************************************************************)
\* _safe_int of an argument, as the claim C11 reads "normalized": the int
\* itself, 0 for an absent or non-numeric one
Normalized(value) == IF value.k = "int" THEN value.v ELSE 0

\* C11: with no company_strength supplied, the reported company_strength is
\* "weak" if followers < 500 or employees < 20, else "medium" if
\* 500 <= followers <= 5000, else "strong"; weak_company is
\* followers < 500 or employees < 10 or engagement < 5, whatever
\* company_strength is supplied or computed.
C11_CompanySignals ==
    Returned =>
        LET f == Normalized(request.followers)
            e == Normalized(request.employees)
            g == Normalized(request.engagement)
            cs == result.signals.company_strength
        IN  /\ result.signals.followers = f
            /\ result.signals.employees = e
            /\ result.signals.engagement = g
            /\ request.company_strength = NoStrength =>
                  /\ cs \in {"weak", "medium", "strong"}
                  /\ (cs = "weak") <=> (f < 500 \/ e < 20)
                  /\ (cs = "medium") <=> (f >= 500 /\ f <= 5000 /\ e >= 20)
                  /\ (cs = "strong") <=> (f > 5000 /\ e >= 20)
            /\ result.signals.weak_company <=> (f < 500 \/ e < 10 \/ g < 5)

\* many followers with few employees: classified weak by the first clause,
\* while weak_company is false
C11_Witness ==
    /\ Returned
    /\ request.company_strength = NoStrength
    /\ request.followers = IntVal(5001)
    /\ request.employees = IntVal(19)
    /\ request.engagement = IntVal(5)
    /\ result.signals.company_strength = "weak"
    /\ ~result.signals.weak_company

(***************************************************************************)
(* The /analyze_job endpoint                                               *)
(***************************************************************************)
\* C12: for every request the validation of /analyze_job accepts, the three
\* flag fields of the result are each 0 or 1 and its suspicion_score is an
\* integer in 0..3.
C12_FlagAndScoreRanges ==
    (pc = "serving" /\ phase = "returned" /\ Accepted(request)
        /\ result.status = "ok") =>
        /\ \A f \in FlagFields : result.signals[f] \in {0, 1}
        /\ result.signals.suspicion_score \in 0..3

====
